---- MODULE Spec2Model ----
(***************************************************************************)
(* Model of the probe -> dispatch -> streaming download -> manifest commit *)
(* core of the ETL pipeline (src/pipeline/etl/src).                        *)
(*                                                                         *)
(*   Spec       one sequential pipeline: execute, then add_record/save     *)
(*   SpecCrash  one manifest writer that may be killed at any step of save *)
(*   SpecConc   two processes sharing one manifest path                    *)
(*   SpecProbe  SourceProber.execute against a remote server               *)
(*   SpecDispatch  a probe whose result is handed to DownloadContext       *)
(*   SpecLoad   processes loading a manifest file they find on disk        *)
(*   SpecEvent  construction of a DownloadEvent from arbitrary input       *)
(*   SpecPaths  calls of the PathManager resolvers and create_directory    *)
(*   SpecConfig calls of Config() while the configuration file changes     *)
(*   SpecRegistry  the registry-style Manifest class and its manager       *)
(***************************************************************************)
EXTENDS Integers, Sequences, FiniteSets, TLC

\* ---------------------------------------------------------------- bounds
MaxBody == 2
MaxClock == 1
MaxRuns == 2
MaxWrites == 2
NumPieces == 2
MonthLen == 2

\* ------------------------------------------------------------- constants
None == "None"

Bytes == {0, 1}
Procs == {"p1", "p2"}
SourceIds == {"spansh"}
ProcessName == "downloads"
\* version strings are sequences of characters: ETLConfig.version = "1.0"
ConfVersion == <<"1", ".", "0">>
GzipMime == "application/gzip"
MimeTypes == {GzipMime, "application/json", "unknown", "error"}

\* ETLSource objects handed to the pipeline (sources/model.py)
ETLSource(sid) ==
    [source_id |-> sid, dataset |-> "systems", ext |-> ".json.gz", last_etag |-> None]

Sources == {ETLSource(sid) : sid \in SourceIds}

\* all byte strings of length <= n
RECURSIVE BodiesUpTo(_)
BodiesUpTo(n) ==
    IF n = 0 THEN {<<>>}
    ELSE LET S == BodiesUpTo(n - 1)
         IN  S \cup {Append(b, x) : b \in {s \in S : Len(s) = n - 1}, x \in Bytes}

Bodies == BodiesUpTo(MaxBody)

\* ------------------------------------------------------------- hashing
\* hashlib.sha256(): the accumulator starts empty, update() folds the bytes
\* of a chunk into it in order, hexdigest() reads it out.  The digest is
\* modelled collision-free: a base-3 positional code of the bytes fed.
Sha256New == 0

RECURSIVE Sha256Update(_, _)
Sha256Update(h, chunk) ==
    IF chunk = <<>> THEN h
    ELSE Sha256Update(h * 3 + Head(chunk) + 1, Tail(chunk))

HexDigest(h) == h

\* calculate_local_sha256: hash of a file already on disk, read in blocks
CalculateLocalSha256(content) == HexDigest(Sha256Update(Sha256New, content))

\* Field(pattern=r"^[a-fA-F0-9]{64}$"): hexdigest() output always matches
IsSha256Hex(s) == s \in Nat

\* ------------------------------------------------------- path resolution
\* paths are sequences of components; a file name is the tuple of its parts
\* COMPONENT_ROOT, and "tests" under it in testing mode
ComponentRoot == <<"etl">>
TestingMode == TRUE

\* PathManager.__init__: self._root
RootDir == IF TestingMode THEN Append(ComponentRoot, "tests") ELSE ComponentRoot

\* PathManager.get_root_dir, get_downloads_dir, get_manifests_dir, get_raw_dir
GetRootDir == RootDir
GetDownloadsDir == RootDir \o <<"data", "downloads">>
GetManifestsDir == RootDir \o <<"data", "manifests">>
GetRawDir == RootDir \o <<"data", "raw">>

\* the characters r'\w' matches, among those version strings are made of
WordChars == {"0", "1", "_"}

\* re.sub(r'[^\w-]', '', version): every character that is not a word
\* character or '-' is dropped
StripVersion(version) ==
    LET Keep(c) == c \in WordChars \cup {"-"}
    IN  SelectSeq(version, Keep)

\* str.replace(old, new), character by character
ReplaceChar(text, old, new) ==
    [i \in 1..Len(text) |-> IF text[i] = old THEN new ELSE text[i]]

\* re.sub(r'[^\w-]', '', version).replace('.', '_'): the dot is dropped by
\* the substitution and never reaches replace
SafeVersion(version) == ReplaceChar(StripVersion(version), ".", "_")

\* str.lower() on the process names used
Lower(process) ==
    IF process \in {"Downloads", "DOWNLOADS"} THEN "downloads" ELSE process

\* PathManager.generate_manifest_path
GenerateManifestPath(process, version) ==
    Append(GetManifestsDir, <<"manifest", Lower(process), "v", SafeVersion(version), ".json">>)

\* path.with_suffix(f"{path.suffix}.tmp") in write_json
TmpPath(path) == [path EXCEPT ![Len(path)] = Append(@, ".tmp")]

\* DownloadContext._generate_filename: now.strftime("%Y%m%d_%H%M%S") keeps
\* whole seconds, re.sub(r'\.', '-', version) turns "1.0" into "1-0"
DashVersion(version) == ReplaceChar(version, ".", "-")

GenerateFilename(source_id, process, dataset, version, ext, now) ==
    <<source_id, dataset, process, now, "v", DashVersion(version), ext>>

\* the <year>/<month> partition a timestamp falls in
YearMonth(now) == now \div MonthLen

\* PathManager.create_timestamped_dir: the directory made for "now"
TimestampedDir(now) == <<"downloads", YearMonth(now)>>

\* PathManager.resolve_full_path: the filename under that directory
ResolveFullPath(filename, now) == [dir |-> TimestampedDir(now), name |-> filename]

\* ------------------------------------------------------ manifest objects
\* Metadata(process=..., version=...): both timestamps default to now
NewMetadata(process, version, now) ==
    [process |-> process, version |-> version, total_records |-> 0,
     ts_created |-> now, ts_updated |-> now]

\* touch leaves the timestamp as it is
Touch_stale(md, now) == md

\* Metadata.touch
Touch(md, now) == [md EXCEPT !.ts_updated = now]

\* ManifestManager._generate_new_manifest
GenerateNewManifest(process, version, now) ==
    [process |-> process, metadata |-> NewMetadata(process, version, now),
     records |-> <<>>]

\* the size constraint is ge=0
ValidDownloadEvent_allowEmpty(fileExists, size, sha) ==
    fileExists /\ size >= 0 /\ IsSha256Hex(sha)

\* DownloadEvent field constraints: FilePath, gt=0, 64 hex characters
ValidDownloadEvent(fileExists, size, sha) ==
    fileExists /\ size > 0 /\ IsSha256Hex(sha)

\* the Record add_record builds from a source and an event
MkRecord(source, ev) ==
    [source_id |-> source.source_id, dataset |-> source.dataset,
     checksum |-> ev.sha256, file_path |-> ev.file_path,
     file_size |-> ev.file_size_bytes, etag |-> source.last_etag,
     ts_downloaded |-> ev.ts_download_completed, file_version |-> "1.0"]

\* the key is a shortened form of the checksum
RecordKey_short(record) == record.checksum \div 3

\* the key add_record stores a record under
RecordKey(record) == record.checksum

\* the count is incremented instead of recomputed
RecordCount_increment(m) == m.metadata.total_records + 1

\* len(manifest.records)
RecordCount(m) == Cardinality(DOMAIN m.records)

\* setdefault: a key already present keeps its record
PutRecord_keepFirst(records, key, record) == records @@ (key :> record)

\* manifest.records[record.checksum] = record: insert, or overwrite in place
PutRecord(records, key, record) == (key :> record) @@ records

\* add_record steps 1-3: insert or overwrite, then synchronise the metadata
AddRecordMem(m, source, ev, now) ==
    LET record == MkRecord(source, ev)
        m1 == [m EXCEPT !.records = PutRecord(m.records, RecordKey(record), record)]
    IN  [m1 EXCEPT !.metadata = Touch([m1.metadata EXCEPT !.total_records =
                                           RecordCount(m1)], now)]

\* save step 1: touch, then recount
SaveMem(m, now) ==
    [m EXCEPT !.metadata = [Touch(m.metadata, now) EXCEPT !.total_records =
                                RecordCount(m)]]

\* the validator accepts every key
ValidateRecordKeys_off(m) == TRUE

\* Manifest.validate_record_keys
ValidateRecordKeys(m) == \A sha \in DOMAIN m.records : sha = m.records[sha].checksum

\* --------------------------------------------------------- serialisation
\* model_dump(mode="json"): datetimes become ISO strings, the rest is kept
IsoFormat(t) == [iso |-> t]
FromIso(s) == s.iso

DumpRecord(r) == [r EXCEPT !.ts_downloaded = IsoFormat(r.ts_downloaded)]
LoadRecord(r) == [r EXCEPT !.ts_downloaded = FromIso(r.ts_downloaded)]

ModelDump(m) ==
    [process |-> m.process,
     metadata |-> [m.metadata EXCEPT !.ts_created = IsoFormat(m.metadata.ts_created),
                                     !.ts_updated = IsoFormat(m.metadata.ts_updated)],
     records |-> [k \in DOMAIN m.records |-> DumpRecord(m.records[k])]]

\* TypeAdapter(Manifest).validate_python without the key validator
ParseManifest(raw) ==
    [process |-> raw.process,
     metadata |-> [raw.metadata EXCEPT !.ts_created = FromIso(raw.metadata.ts_created),
                                       !.ts_updated = FromIso(raw.metadata.ts_updated)],
     records |-> [k \in DOMAIN raw.records |-> LoadRecord(raw.records[k])]]

\* json.dump reaches the file in NumPieces write calls; cell k of a file
\* holds piece k of some document, or nothing where a write left a gap
Piece(data, k) == [doc |-> {data}, k |-> k]
Gap == [doc |-> {}, k |-> 0]

\* json.load: a file parses iff it is the pieces 1..NumPieces of one document
IsJson(content) ==
    /\ Len(content) = NumPieces
    /\ \A k \in 1..NumPieces : content[k].k = k /\ content[k].doc = content[1].doc
    /\ content[1].doc # {}

JsonLoad(content) == CHOOSE d \in content[1].doc : TRUE

\* a write of one cell at a file offset (0-based), padding a gap if needed
RECURSIVE PadTo(_, _)
PadTo(content, n) == IF Len(content) >= n THEN content ELSE PadTo(Append(content, Gap), n)

WriteAt(content, off, cell) ==
    IF off < Len(content) THEN [content EXCEPT ![off + 1] = cell]
    ELSE Append(PadTo(content, off), cell)

\* ------------------------------------------------------------------ state
VARIABLES
    clock,      \* wall clock, whole seconds
    names,      \* manifest directory: path -> inode
    inodes,     \* inode -> file content (sequence of cells)
    pc,         \* per process: position inside a manifest operation
    mem,        \* per process: the Manifest object it holds ({} = none)
    fd,         \* per process: the open file of write_json ({} = none)
    job,        \* per process: its last ManifestManager call and the write_json in progress
    res,        \* per process: outcome of its last manifest operation
    dirs,       \* download directories that exist
    files,      \* download files: path -> bytes
    dl,         \* DownloadContext.execute in progress
    out,        \* outcome of the last execute
    runs,       \* number of execute calls so far
    writes,     \* number of write_json calls so far
    probe,      \* SourceProber.execute: requests made and outcome
    call,       \* the last call of a function that keeps no state of its own
    config,     \* class attributes of the Config singleton and its file
    registry,   \* Manifest._registry and the instances it holds
    resolved    \* manifest paths handed out so far: <<process, version>> -> path

storeVars == <<names, inodes, pc, mem, fd, job, res, writes>>
pipeVars == <<dirs, files, dl, out, runs>>
auxVars == <<call, config, registry, resolved>>
vars == <<clock, names, inodes, pc, mem, fd, job, res, writes,
          dirs, files, dl, out, runs, probe, call, config, registry, resolved>>

ManifestFile == GenerateManifestPath(ProcessName, ConfVersion)

\* what a reader finds at the manifest path at this moment
Persisted ==
    IF ManifestFile \notin DOMAIN names THEN [state |-> "absent", doc |-> {}]
    ELSE IF IsJson(inodes[names[ManifestFile]])
         THEN [state |-> "valid", doc |-> {JsonLoad(inodes[names[ManifestFile]])}]
         ELSE [state |-> "corrupt", doc |-> {}]

ValidFile(data) == [state |-> "valid", doc |-> {data}]

IdleJob == [op |-> "none", data |-> {}, next |-> 0, before |-> [state |-> "absent", doc |-> {}],
            view |-> {}, record |-> {}, replaced |-> {}, keysBefore |-> {}]

\* inodes still reachable through a name or an open file
Reachable(nm, fds) ==
    {nm[n] : n \in DOMAIN nm} \cup UNION {{f.ino : f \in fds[p]} : p \in Procs}

Collect(ino, nm, fds) == [i \in (DOMAIN ino) \cap Reachable(nm, fds) |-> ino[i]]

FreshInode == CHOOSE i \in 0..Cardinality(DOMAIN inodes) : i \notin DOMAIN inodes

\* ------------------------------------------------- obtaining a Manifest
\* _generate_new_manifest: nothing is read or written
NewManifest(p) ==
    /\ pc[p] = "idle"
    /\ mem' = [mem EXCEPT ![p] = {GenerateNewManifest(ProcessName, ConfVersion, clock)}]
    /\ res' = [res EXCEPT ![p] = "new"]
    /\ UNCHANGED <<clock, names, inodes, pc, fd, job, writes, pipeVars, probe, auxVars>>

\* PathManager.read_pydantic_model(path, Manifest): read_json returns None
\* for a missing file and raises on undecodable text; validation runs the
\* key validator
ReadModelResult(path) ==
    IF path \notin DOMAIN names THEN [status |-> "none", m |-> {}]
    ELSE IF ~IsJson(inodes[names[path]]) THEN [status |-> "ValueError", m |-> {}]
    ELSE LET m == ParseManifest(JsonLoad(inodes[names[path]]))
         IN  IF ValidateRecordKeys(m) THEN [status |-> "loaded", m |-> {m}]
             ELSE [status |-> "ValueError", m |-> {}]

ReadModel(p) ==
    /\ pc[p] = "idle"
    /\ LET r == ReadModelResult(ManifestFile)
       IN  /\ res' = [res EXCEPT ![p] = r.status]
           /\ mem' = [mem EXCEPT ![p] = IF r.status = "loaded" THEN r.m ELSE @]
    /\ job' = [job EXCEPT ![p] = [IdleJob EXCEPT !.op = "read_pydantic_model"]]
    /\ UNCHANGED <<clock, names, inodes, pc, fd, writes, pipeVars, probe, auxVars>>

\* ManifestManager.load: the call passes strict=False, a keyword that
\* read_pydantic_model(path, model_class) does not accept, so the call
\* raises TypeError before any file is read
Load(p) ==
    /\ pc[p] = "idle"
    /\ GenerateManifestPath(ProcessName, ConfVersion) = ManifestFile
    /\ res' = [res EXCEPT ![p] = "TypeError"]
    /\ mem' = mem
    /\ job' = [job EXCEPT ![p] = [IdleJob EXCEPT !.op = "load"]]
    /\ UNCHANGED <<clock, names, inodes, pc, fd, writes, pipeVars, probe, auxVars>>

\* ------------------------------------------------- add_record and save
\* the document is written straight to its final path
OpenTarget_inPlace(path, atomic) == path

\* the path write_json opens for writing
OpenTarget(path, atomic) == IF atomic THEN TmpPath(path) ELSE path

\* save folds the records found on disk into what it writes
SaveData_merge(m, onDisk) ==
    LET disk == IF onDisk.state = "valid"
                THEN (CHOOSE d \in onDisk.doc : TRUE).records ELSE <<>>
        own == ModelDump(m)
    IN  [own EXCEPT !.records = own.records @@ disk]

\* the data save hands to write_pydantic_model: the in-memory manifest only
SaveData(m, onDisk) == ModelDump(m)

\* the manifest is final in memory and write_json is about to run; the job
\* remembers what the call was given (record: the record of add_record,
\* replaced: the record it overwrote, keysBefore: the keys held before)
BeginWrite(p, op, m, record, old) ==
    /\ writes < MaxWrites
    /\ writes' = writes + 1
    /\ mem' = [mem EXCEPT ![p] = {m}]
    /\ job' = [job EXCEPT ![p] =
                 [op |-> op, data |-> {SaveData(m, Persisted)}, next |-> 1,
                  before |-> Persisted, view |-> {m.records}, record |-> record,
                  replaced |-> {old.records[k] : k \in {r.checksum : r \in record}
                                                       \cap DOMAIN old.records},
                  keysBefore |-> DOMAIN old.records]]
    /\ pc' = [pc EXCEPT ![p] = "open"]

\* Record field constraints: 64 hex characters, gt=0
ValidRecord(record) == IsSha256Hex(record.checksum) /\ record.file_size > 0

\* add_record: build the record (which validates it), insert it, recount,
\* touch, then save (touch and recount again) up to the call of write_json
AddRecord(p, source, ev) ==
    /\ pc[p] = "idle"
    /\ mem[p] # {}
    /\ LET m == CHOOSE x \in mem[p] : TRUE
       IN  IF ValidRecord(MkRecord(source, ev))
           THEN /\ BeginWrite(p, "add_record",
                              SaveMem(AddRecordMem(m, source, ev, clock), clock),
                              {MkRecord(source, ev)}, m)
                /\ res' = res
           ELSE /\ res' = [res EXCEPT ![p] = "ValidationError"]
                /\ UNCHANGED <<mem, job, pc, writes>>
    /\ UNCHANGED <<clock, names, inodes, fd, dirs, files, dl, out, runs, probe, auxVars>>

\* save called on its own
Save(p) ==
    /\ pc[p] = "idle"
    /\ mem[p] # {}
    /\ LET m == CHOOSE x \in mem[p] : TRUE
       IN  BeginWrite(p, "save", SaveMem(m, clock), {}, m)
    /\ UNCHANGED <<clock, names, inodes, fd, res, pipeVars, probe, auxVars>>

\* write_json: open(tmp_path, "w") creates the file or truncates the one
\* that is there
OpenFile(p) ==
    /\ pc[p] = "open"
    /\ LET t == OpenTarget(ManifestFile, TRUE)
           i == IF t \in DOMAIN names THEN names[t] ELSE FreshInode
       IN  /\ names' = (t :> i) @@ names
           /\ inodes' = (i :> <<>>) @@ inodes
           /\ fd' = [fd EXCEPT ![p] = {[ino |-> i, off |-> 0]}]
    /\ pc' = [pc EXCEPT ![p] = "write"]
    /\ UNCHANGED <<clock, mem, job, res, writes, pipeVars, probe, auxVars>>

\* json.dump: the next piece goes to the file at this writer's offset; the
\* file is closed after the last one
WritePiece(p) ==
    /\ pc[p] = "write"
    /\ LET f == CHOOSE x \in fd[p] : TRUE
           d == CHOOSE x \in job[p].data : TRUE
           k == job[p].next
       IN  /\ inodes' = [inodes EXCEPT ![f.ino] = WriteAt(@, f.off, Piece(d, k))]
           /\ fd' = [fd EXCEPT ![p] = {[f EXCEPT !.off = @ + 1]}]
           /\ job' = [job EXCEPT ![p].next = k + 1]
           /\ pc' = [pc EXCEPT ![p] = IF k = NumPieces THEN "replace" ELSE "write"]
    /\ UNCHANGED <<clock, names, mem, res, writes, pipeVars, probe, auxVars>>

\* tmp_path.replace(path): an atomic rename; FileNotFoundError when the
\* temporary name is gone
Replace(p) ==
    /\ pc[p] = "replace"
    /\ LET t == OpenTarget(ManifestFile, TRUE)
           nfd == [fd EXCEPT ![p] = {}]
       IN  /\ fd' = nfd
           /\ IF t \in DOMAIN names
              THEN /\ names' = [n \in ((DOMAIN names) \ {t}) \cup {ManifestFile} |->
                                   IF n = ManifestFile THEN names[t] ELSE names[n]]
                   /\ res' = [res EXCEPT ![p] = "ok"]
              ELSE /\ names' = names
                   /\ res' = [res EXCEPT ![p] = "FileNotFoundError"]
           /\ inodes' = Collect(inodes, names', nfd)
    /\ pc' = [pc EXCEPT ![p] = "idle"]
    /\ UNCHANGED <<clock, mem, job, writes, pipeVars, probe, auxVars>>

\* the process is killed somewhere inside write_json
Crash(p) ==
    /\ pc[p] \in {"open", "write", "replace"}
    /\ pc' = [pc EXCEPT ![p] = "crashed"]
    /\ fd' = [fd EXCEPT ![p] = {}]
    /\ inodes' = Collect(inodes, names, fd')
    /\ res' = [res EXCEPT ![p] = "killed"]
    /\ UNCHANGED <<clock, names, mem, job, writes, pipeVars, probe, auxVars>>

\* a new process takes its place, with nothing in memory
Restart(p) ==
    /\ pc[p] = "crashed"
    /\ pc' = [pc EXCEPT ![p] = "idle"]
    /\ mem' = [mem EXCEPT ![p] = {}]
    /\ job' = [job EXCEPT ![p] = IdleJob]
    /\ res' = [res EXCEPT ![p] = "none"]
    /\ UNCHANGED <<clock, names, inodes, fd, writes, pipeVars, probe, auxVars>>

Tick ==
    /\ clock < MaxClock
    /\ clock' = clock + 1
    /\ UNCHANGED <<storeVars, pipeVars, probe, auxVars>>

\* ---------------------------------------------- DownloadContext.execute
\* a type without an entry falls back to the gzip regime
StrategyMap_default(mime) == "GzipRegime"

\* self._strategy_map.get(mime_type)
StrategyMap(mime) ==
    IF mime = GzipMime THEN "GzipRegime" ELSE None

MkEvent(path, size, sha, started, completed, regime) ==
    [file_path |-> path, file_size_bytes |-> size, sha256 |-> sha,
     ts_download_started |-> started, ts_download_completed |-> completed,
     download_regime |-> regime]

\* where execute puts the download of a source at time now
Destination(source, now) ==
    ResolveFullPath(GenerateFilename(source.source_id, "FULL", source.dataset,
                                     ConfVersion, source.ext, now), now)

IdleDl == [pc |-> "idle", source |-> ETLSource("spansh"), dest |-> Destination(ETLSource("spansh"), 0),
           remaining |-> <<>>, pending |-> <<>>, sha |-> Sha256New, started |-> 0,
           chunks |-> 0]

Outcome(status, event, size) == [status |-> status, event |-> event, size |-> size]

\* the accumulator is created anew for every chunk
HashChunk_restart(h, chunk) == Sha256Update(Sha256New, chunk)

\* sha256.update(chunk)
HashChunk(h, chunk) == Sha256Update(h, chunk)

\* iter_bytes(chunk_size=128 * 1024), in bytes of the model
ChunkSize == 1

\* the whole body is read at once
IterBytes_whole(remaining) == remaining

\* the next chunk of iter_bytes: chunk_size bytes, fewer at the end
IterBytes(remaining) ==
    SubSeq(remaining, 1, IF Len(remaining) < ChunkSize THEN Len(remaining) ELSE ChunkSize)

\* the destination is opened before the status of the response is checked
OpenDestination_first(httpError, dest, fs) == (dest :> <<>>) @@ fs

\* response.raise_for_status() and then open(destination, "wb"): the file
\* system after the two, an existing file is truncated by the open
OpenDestination(httpError, dest, fs) ==
    IF httpError THEN fs ELSE (dest :> <<>>) @@ fs

\* execute up to the first chunk: strategy lookup, filename, directory,
\* destination, GET and raise_for_status, open(destination, "wb")
ExecuteBegin(source, mime, body, httpError) ==
    /\ dl.pc # "streaming"
    /\ pc["p1"] = "idle"
    /\ runs < MaxRuns
    /\ runs' = runs + 1
    /\ IF StrategyMap(mime) = None
       THEN /\ dl' = [dl EXCEPT !.pc = "raised"]
            /\ out' = (Outcome("ValueError", {}, 0))
            /\ UNCHANGED <<dirs, files>>
       ELSE LET dest == Destination(source, clock)
            IN  /\ dirs' = dirs \cup {TimestampedDir(clock)}
                /\ IF httpError
                   THEN /\ dl' = [dl EXCEPT !.pc = "raised", !.source = source, !.dest = dest]
                        /\ out' = (Outcome("HTTPStatusError", {}, 0))
                        /\ files' = OpenDestination(TRUE, dest, files)
                   ELSE /\ dl' = [pc |-> "streaming", source |-> source, dest |-> dest,
                                  remaining |-> body, pending |-> <<>>,
                                  sha |-> Sha256New, started |-> clock, chunks |-> 0]
                        /\ files' = OpenDestination(FALSE, dest, files)
                        /\ out' = out
    /\ UNCHANGED <<clock, storeVars, probe, auxVars>>

\* the loop takes the next chunk off the stream and feeds it to the digest
ExecuteChunkHash ==
    /\ dl.pc = "streaming"
    /\ dl.pending = <<>>
    /\ dl.remaining # <<>>
    /\ LET chunk == IterBytes(dl.remaining)
       IN  dl' = [dl EXCEPT !.pending = chunk,
                            !.remaining = SubSeq(dl.remaining, Len(chunk) + 1,
                                                 Len(dl.remaining)),
                            !.sha = HashChunk(dl.sha, chunk),
                            !.chunks = @ + 1]
    /\ UNCHANGED <<clock, storeVars, dirs, files, out, runs, probe, auxVars>>

\* every write starts again at the beginning of the file
ExecuteChunkWrite_rewind ==
    /\ dl.pc = "streaming"
    /\ dl.pending # <<>>
    /\ files' = [files EXCEPT ![dl.dest] = dl.pending]
    /\ dl' = [dl EXCEPT !.pending = <<>>]
    /\ UNCHANGED <<clock, storeVars, dirs, out, runs, probe, auxVars>>

\* f.write(chunk)
ExecuteChunkWrite ==
    /\ dl.pc = "streaming"
    /\ dl.pending # <<>>
    /\ files' = [files EXCEPT ![dl.dest] = @ \o dl.pending]
    /\ dl' = [dl EXCEPT !.pending = <<>>]
    /\ UNCHANGED <<clock, storeVars, dirs, out, runs, probe, auxVars>>

\* the partially written file is removed when the stream breaks
ExecuteStreamError_cleanup ==
    /\ dl.pc = "streaming"
    /\ dl.pending = <<>>
    /\ dl.remaining # <<>>
    /\ dl' = [dl EXCEPT !.pc = "raised"]
    /\ out' = (Outcome("TransportError", {}, 0))
    /\ files' = [f \in DOMAIN files \ {dl.dest} |-> files[f]]
    /\ UNCHANGED <<clock, storeVars, dirs, runs, probe, auxVars>>

\* the connection breaks while the body is streamed: download raises and
\* execute with it; the file stays as it is
ExecuteStreamError ==
    /\ dl.pc = "streaming"
    /\ dl.pending = <<>>
    /\ dl.remaining # <<>>
    /\ dl' = [dl EXCEPT !.pc = "raised"]
    /\ out' = (Outcome("TransportError", {}, 0))
    /\ UNCHANGED <<clock, storeVars, dirs, files, runs, probe, auxVars>>

\* the stream is exhausted: the file is closed, download returns the hex
\* digest, execute stats the file and constructs the DownloadEvent
ExecuteFinish ==
    /\ dl.pc = "streaming"
    /\ dl.pending = <<>>
    /\ dl.remaining = <<>>
    /\ LET sha == HexDigest(dl.sha)
           size == Len(files[dl.dest])
       IN  IF ValidDownloadEvent(dl.dest \in DOMAIN files, size, sha)
           THEN /\ dl' = [dl EXCEPT !.pc = "returned"]
                /\ out' = Outcome("ok",
                              {MkEvent(dl.dest, size, sha, dl.started, clock, "GzipRegime")},
                              size)
           ELSE /\ dl' = [dl EXCEPT !.pc = "raised"]
                /\ out' = (Outcome("ValidationError", {}, size))
    /\ UNCHANGED <<clock, storeVars, dirs, files, runs, probe, auxVars>>

\* the pipeline hands the event execute returned to add_record
AddRecordFromRun(p) ==
    /\ dl.pc = "returned"
    /\ out.event # {}
    /\ AddRecord(p, dl.source, CHOOSE e \in out.event : TRUE)

\* add_record with some event of a download that completed earlier
EventFor(source, body, started, completed) ==
    MkEvent(Destination(source, started), Len(body), CalculateLocalSha256(body),
            started, completed, "GzipRegime")

AddRecordAny(p) ==
    \E source \in Sources, body \in {<<0>>, <<1>>} :
        AddRecord(p, source, EventFor(source, body, clock, clock))

\* ------------------------------------------------- SourceProber.execute
\* what a request meets: an HTTP status, or no response at all
NoResponse == -1
HeadOutcomes == {NoResponse, 200, 404, 500}
GetOutcomes == {NoResponse, 200, 206, 416}
Samples == {"gzip", "json", "text"}

\* magic.from_buffer(sample, mime=True)
Sniff(sample) ==
    IF sample = "gzip" THEN GzipMime
    ELSE IF sample = "json" THEN "application/json" ELSE "text/plain"

\* only the 5xx statuses count as errors
IsError_serverOnly(status) == status >= 500

\* httpx.Response.is_error: 4xx and 5xx
IsError(status) == status >= 400

\* a remote server, as the prober sees it
Servers ==
    [head : HeadOutcomes, get : GetOutcomes, sample : Samples,
     content_type : {GzipMime, "text/html"}, accept_ranges : BOOLEAN]

\* a result built without a mime_type takes the type of the Content-Type header
DefaultMime_header(server) == server.content_type

\* ProbeResult.mime_type: str = "unknown", the value of a result that is
\* built without one
DefaultMime(server) == "unknown"

ProbeResult(status, mime, err, ranges) ==
    [status_code |-> status, mime_type |-> mime, probe_error |-> err,
     is_range_supported |-> ranges]

NoResult == ProbeResult(-1, "unknown", {}, FALSE)

\* client.head(url) and the is_error check; an exception of the transport
\* is raised outside the try block and leaves execute
ProbeHead ==
    /\ probe.pc = "start"
    /\ IF probe.server.head = NoResponse
       THEN probe' = [probe EXCEPT !.pc = "raised", !.requests = @ + 1]
       ELSE IF IsError(probe.server.head)
            THEN probe' = [probe EXCEPT !.pc = "returned", !.requests = @ + 1,
                               !.result = ProbeResult(probe.server.head,
                                                      DefaultMime(probe.server),
                                                      {"HTTP Error"}, FALSE)]
            ELSE probe' = [probe EXCEPT !.pc = "sample", !.requests = @ + 1]
    /\ UNCHANGED <<clock, storeVars, pipeVars, auxVars>>

\* the sample is sniffed whatever the status of the GET
SampleOk_any(status) == TRUE

\* if res_get.status_code in (200, 206)
SampleOk(status) == status \in {200, 206}

\* the type is taken from the Content-Type header of the server
SampleMime_header(server) ==
    IF SampleOk(server.get) THEN server.content_type ELSE "unknown"

\* mime_type = "unknown", replaced by magic.from_buffer(res_get.content)
\* when the sample was delivered
SampleMime(server) ==
    IF SampleOk(server.get) THEN Sniff(server.sample) ELSE "unknown"

\* the handler reports the failure under the status of the HEAD
SampleFailure_headStatus(server) ==
    ProbeResult(server.head, "unknown", {"ConnectError"}, FALSE)

\* except (httpx.HTTPError, Exception): the result of a failed sample
SampleFailure(server) == ProbeResult(0, "error", {"ConnectError"}, FALSE)

\* what execute returns once the HEAD has succeeded
SampleResult(server) ==
    IF server.get = NoResponse THEN SampleFailure(server)
    ELSE ProbeResult(server.head, SampleMime(server), {}, server.accept_ranges)

\* the ranged GET inside the try block, the sniffing and the result
ProbeSample ==
    /\ probe.pc = "sample"
    /\ probe' = [probe EXCEPT !.pc = "returned", !.requests = @ + 1,
                             !.result = SampleResult(probe.server)]
    /\ UNCHANGED <<clock, storeVars, pipeVars, auxVars>>

\* ------------------------------------------------------- specifications
InitStore ==
    /\ names = <<>>
    /\ inodes = <<>>
    /\ pc = [p \in Procs |-> "idle"]
    /\ mem = [p \in Procs |-> {}]
    /\ fd = [p \in Procs |-> {}]
    /\ job = [p \in Procs |-> IdleJob]
    /\ res = [p \in Procs |-> "none"]
    /\ writes = 0

InitPipe ==
    /\ dirs = {}
    /\ files = <<>>
    /\ dl = IdleDl
    /\ out = Outcome("none", {}, 0)
    /\ runs = 0

IdleProbe == [pc |-> "off", requests |-> 0, result |-> NoResult,
              server |-> [head |-> 200, get |-> 200, sample |-> "gzip",
                          content_type |-> GzipMime, accept_ranges |-> TRUE]]

\* nothing has been called, no Config and no Manifest object exists
NoCall == [op |-> "none"]

InitAux ==
    /\ call = NoCall
    /\ config = <<>>
    /\ registry = <<>>
    /\ resolved = <<>>

Init ==
    /\ clock = 0
    /\ InitStore
    /\ InitPipe
    /\ probe = IdleProbe
    /\ InitAux

\* one pipeline: downloads and manifest commits of process p1, in sequence
Next ==
    \/ Tick
    \/ \E source \in Sources, mime \in MimeTypes, body \in Bodies, httpError \in BOOLEAN :
           ExecuteBegin(source, mime, body, httpError)
    \/ ExecuteChunkHash
    \/ ExecuteChunkWrite
    \/ ExecuteStreamError
    \/ ExecuteFinish
    \/ dl.pc # "streaming" /\ NewManifest("p1")
    \/ dl.pc # "streaming" /\ ReadModel("p1")
    \/ dl.pc # "streaming" /\ Load("p1")
    \/ AddRecordFromRun("p1")
    \/ dl.pc # "streaming" /\ Save("p1")
    \/ OpenFile("p1")
    \/ WritePiece("p1")
    \/ Replace("p1")

Spec == Init /\ [][Next]_vars

\* one manifest writer that can be killed inside save
NextCrash ==
    \/ Tick
    \/ NewManifest("p1")
    \/ ReadModel("p1")
    \/ Load("p1")
    \/ AddRecordAny("p1")
    \/ Save("p1")
    \/ OpenFile("p1")
    \/ WritePiece("p1")
    \/ Replace("p1")
    \/ Crash("p1")
    \/ Restart("p1")

SpecCrash == Init /\ [][NextCrash]_vars

\* two processes that share the manifest path
NextConc ==
    \/ Tick
    \/ \E p \in Procs :
           \/ NewManifest(p)
           \/ ReadModel(p)
           \/ Load(p)
           \/ AddRecordAny(p)
           \/ Save(p)
           \/ OpenFile(p)
           \/ WritePiece(p)
           \/ Replace(p)

SpecConc == Init /\ [][NextConc]_vars

\* one probe of one remote server
InitProbe ==
    /\ clock = 0
    /\ InitStore
    /\ InitPipe
    /\ InitAux
    /\ \E server \in Servers :
           probe = [pc |-> "start", requests |-> 0, result |-> NoResult, server |-> server]

NextProbe ==
    \/ ProbeHead
    \/ ProbeSample

SpecProbe == InitProbe /\ [][NextProbe]_vars

\* test_probe_single: the result of the probe goes to DownloadContext.execute
ExecuteProbed ==
    /\ probe.pc = "returned"
    /\ \E source \in Sources, body \in Bodies, httpError \in BOOLEAN :
           ExecuteBegin(source, probe.result.mime_type, body, httpError)

NextDispatch ==
    \/ ProbeHead
    \/ ProbeSample
    \/ ExecuteProbed
    \/ ExecuteChunkHash
    \/ ExecuteChunkWrite
    \/ ExecuteStreamError
    \/ ExecuteFinish

SpecDispatch == InitProbe /\ [][NextDispatch]_vars

\* manifest files load can meet: written by save, cut short, or edited so
\* that a record sits under another key
DiskRecords ==
    {MkRecord(source, EventFor(source, body, 0, 0)) :
         source \in Sources, body \in {<<0>>, <<1>>}}

DiskDocs ==
    {ModelDump([process |-> ProcessName,
                metadata |-> [NewMetadata(ProcessName, ConfVersion, 0)
                                 EXCEPT !.total_records = Cardinality(DOMAIN f)],
                records |-> f]) :
         f \in UNION {[K -> DiskRecords] : K \in SUBSET {r.checksum : r \in DiskRecords}}}

DiskFiles ==
    {[k \in 1..n |-> Piece(d, k)] : d \in DiskDocs, n \in 1..NumPieces}

InitLoad ==
    /\ clock = 0
    /\ pc = [p \in Procs |-> "idle"]
    /\ mem = [p \in Procs |-> {}]
    /\ fd = [p \in Procs |-> {}]
    /\ job = [p \in Procs |-> IdleJob]
    /\ res = [p \in Procs |-> "none"]
    /\ writes = 0
    /\ \/ names = <<>> /\ inodes = <<>>
       \/ \E content \in DiskFiles :
              /\ names = (ManifestFile :> 0)
              /\ inodes = (0 :> content)
    /\ InitPipe
    /\ probe = IdleProbe
    /\ InitAux

\* processes that load a manifest file they find
NextLoad ==
    \E p \in Procs :
        \/ Load(p)
        \/ ReadModel(p)

SpecLoad == InitLoad /\ [][NextLoad]_vars

\* ------------------------------------------ constructing a DownloadEvent
\* the length the pattern {64} asks for
HexLen == 64

\* a digest string as the pattern sees it: its length and the kinds of
\* character it holds (digit 0-9, lower a-f, upper A-F, other: anything else)
CharKinds == {"digit", "lower", "upper", "other"}

ShaTexts ==
    [len : {HexLen - 1, HexLen, HexLen + 1}, kinds : (SUBSET CharKinds) \ {{}}]

\* the length is not checked
Sha256Pattern_anyLength(text) == text.kinds \subseteq {"digit", "lower", "upper"}

\* Field(pattern=r"^[a-fA-F0-9]{64}$")
Sha256Pattern(text) ==
    /\ text.len = HexLen
    /\ text.kinds \subseteq {"digit", "lower", "upper"}

\* what file_path names
PathKinds == {"file", "directory", "missing"}

\* DownloadEvent(...): FilePath, Field(gt=0), the pattern, AwareDatetime
DownloadEventInit(path, size, text, aware) ==
    /\ call' = [op |-> "DownloadEvent", path |-> path, size |-> size, sha |-> text,
                aware |-> aware,
                result |-> IF /\ path = "file"
                              /\ size > 0
                              /\ Sha256Pattern(text)
                              /\ aware
                           THEN "event" ELSE "ValidationError"]
    /\ UNCHANGED <<clock, storeVars, pipeVars, probe, config, registry, resolved>>

NextEvent ==
    \E path \in PathKinds, size \in -1..MaxBody, text \in ShaTexts, aware \in BOOLEAN :
        DownloadEventInit(path, size, text, aware)

SpecEvent == Init /\ [][NextEvent]_vars

\* ------------------------------------------------------- PathManager
MaxResolved == 2

\* versions of the form \d+\.\d+ and process names handed to the resolvers
Versions ==
    {major \o <<".">> \o minor : major \in {<<"1">>, <<"1", "1">>},
                                  minor \in {<<"0">>, <<"1", "0">>}}

ProcessNames == {"downloads", "processing"}

\* PathManager.generate_download_path: <downloads>/<year>/<month>/<filename>
GenerateDownloadPath(source_id, process, dataset, version, extension, now) ==
    Append(Append(GetDownloadsDir, YearMonth(now)),
           <<source_id, dataset, process, now, "v", SafeVersion(version), extension>>)

Parent(path) == SubSeq(path, 1, Len(path) - 1)

\* Path.mkdir(parents=True, exist_ok=True): the directory and its ancestors
MkdirParents(path) == {SubSeq(path, 1, k) : k \in 1..Len(path)}

Getter(op) ==
    CASE op = "get_root_dir" -> GetRootDir
      [] op = "get_downloads_dir" -> GetDownloadsDir
      [] op = "get_manifests_dir" -> GetManifestsDir
      [] op = "get_raw_dir" -> GetRawDir

GetterCall(op) ==
    /\ call' = [op |-> op, result |-> Getter(op)]
    /\ UNCHANGED <<clock, storeVars, pipeVars, probe, config, registry, resolved>>

\* the resolver makes the directory it names
GenerateDownloadPathCall_mkdir(source, process, version) ==
    LET path == GenerateDownloadPath(source.source_id, process, source.dataset,
                                     version, source.ext, clock)
    IN  /\ call' = [op |-> "generate_download_path", result |-> path]
        /\ dirs' = dirs \cup MkdirParents(Parent(path))
        /\ UNCHANGED <<clock, storeVars, files, dl, out, runs, probe, config,
                       registry, resolved>>

GenerateDownloadPathCall(source, process, version) ==
    /\ call' = [op |-> "generate_download_path",
                result |-> GenerateDownloadPath(source.source_id, process, source.dataset,
                                                version, source.ext, clock)]
    /\ UNCHANGED <<clock, storeVars, pipeVars, probe, config, registry, resolved>>

GenerateManifestPathCall(process, version) ==
    /\ <<process, version>> \in DOMAIN resolved
           \/ Cardinality(DOMAIN resolved) < MaxResolved
    /\ call' = [op |-> "generate_manifest_path",
                result |-> GenerateManifestPath(process, version)]
    /\ resolved' = (<<process, version>> :> GenerateManifestPath(process, version))
                        @@ resolved
    /\ UNCHANGED <<clock, storeVars, pipeVars, probe, config, registry>>

\* PathManager.create_directory
CreateDirectory(path) ==
    /\ call' = [op |-> "create_directory", result |-> path]
    /\ dirs' = dirs \cup MkdirParents(path)
    /\ UNCHANGED <<clock, storeVars, files, dl, out, runs, probe, config,
                   registry, resolved>>

\* ETLConfig() has made the manifest and download directories; raw is not
\* among them
InitPaths ==
    /\ clock = 0
    /\ InitStore
    /\ dirs = MkdirParents(GetManifestsDir) \cup MkdirParents(GetDownloadsDir)
    /\ files = <<>>
    /\ dl = IdleDl
    /\ out = Outcome("none", {}, 0)
    /\ runs = 0
    /\ probe = IdleProbe
    /\ InitAux

NextPaths ==
    \/ Tick
    \/ \E op \in {"get_root_dir", "get_downloads_dir", "get_manifests_dir", "get_raw_dir"} :
           GetterCall(op)
    \/ \E source \in Sources, process \in ProcessNames, version \in Versions :
           GenerateDownloadPathCall(source, process, version)
    \/ \E process \in ProcessNames, version \in Versions :
           GenerateManifestPathCall(process, version)
    \/ \E path \in {GetRawDir} \cup {Parent(call.result) : x \in {1} \cap
                                          {IF call.op \in {"generate_download_path",
                                                           "generate_manifest_path"}
                                           THEN 1 ELSE 0}} :
           CreateDirectory(path)

SpecPaths == InitPaths /\ [][NextPaths]_vars

\* ------------------------------------------------- the Config singleton
\* what ETL_CONFIG_PATH can name: no file, text that is not JSON, or a JSON
\* object described by the shape of its top-level properties
ConfigContents ==
    [version : {"str", "int", "absent"},
     downloads : {"ok", "absent", "str", "extra_key", "missing_key", "bad_type"},
     environment : {"str", "int", "absent"},
     extra : BOOLEAN]

ConfigFiles == {[kind |-> "missing"], [kind |-> "notjson"]} \cup
               {[kind |-> "json", content |-> c] : c \in ConfigContents}

\* Config._load: the error it raises, or "ok"
LoadConfig(file) ==
    IF file.kind = "missing" THEN "FileNotFoundError"
    ELSE IF file.kind = "notjson" THEN "JSONDecodeError" ELSE "ok"

\* Config.validate / _validate_recursive against the schema: unexpected
\* keys first, then each schema property in order (missing, nested, type)
ValidateConfig(c) ==
    IF c.extra THEN "KeyError"
    ELSE IF c.version = "absent" THEN "KeyError"
    ELSE IF c.version # "str" THEN "TypeError"
    ELSE IF c.downloads \in {"absent", "str", "extra_key", "missing_key"} THEN "KeyError"
    ELSE IF c.downloads = "bad_type" THEN "TypeError"
    ELSE IF c.environment = "absent" THEN "KeyError"
    ELSE IF c.environment # "str" THEN "TypeError"
    ELSE "ok"

\* Config(): __new__ stores the new object in cls._instance, then loads and
\* validates it; a later call returns cls._instance as it is
ConfigNew ==
    /\ UNCHANGED <<clock, storeVars, pipeVars, probe, registry, resolved>>
    /\ LET file == config.file
       IN
        IF config.instance = {}
        THEN LET loaded == LoadConfig(file)
                 valid == IF loaded = "ok" THEN ValidateConfig(file.content) ELSE loaded
             IN  /\ config' = [config EXCEPT
                                  !.instance = {[id |-> config.created + 1,
                                                 loaded |-> loaded = "ok",
                                                 validated |-> valid = "ok"]},
                                  !.created = @ + 1]
                 /\ call' = [op |-> "Config",
                             result |-> IF valid = "ok" THEN "instance" ELSE valid]
        ELSE /\ config' = config
             /\ call' = [op |-> "Config", result |-> "instance"]

\* the environment variable or the file it names is changed between calls
SetConfigFile(file) ==
    /\ config' = [config EXCEPT !.file = file]
    /\ call' = [op |-> "setenv", result |-> None]
    /\ UNCHANGED <<clock, storeVars, pipeVars, probe, registry, resolved>>

InitConfig ==
    /\ clock = 0
    /\ InitStore
    /\ InitPipe
    /\ probe = IdleProbe
    /\ call = NoCall
    /\ registry = <<>>
    /\ resolved = <<>>
    /\ \E file \in ConfigFiles : config = [instance |-> {}, created |-> 0, file |-> file]

NextConfig ==
    \/ ConfigNew
    \/ \E file \in ConfigFiles : SetConfigFile(file)

SpecConfig == InitConfig /\ [][NextConfig]_vars

\* ------------------------------------- the registry-style Manifest class
\* the values of the ETLProcess enum
ETLProcess == {"downloads", "processing", "ingestion", "validation"}

\* names handed to the constructor and read off the manager
InstanceNames == {"downloads", "validation", "dwonloadss"}

\* checksums of the records handed to add_record
Checksums == {1, 2}

\* the manifest file the constructor may find at its path
ManifestOnDisk == {"absent", "valid", "corrupt"}

\* the call and what it gave: the object returned, or the error raised
Returned(op, name, id) == [op |-> op, name |-> name, obj |-> {id}, error |-> "none"]
Failed(op, name, error) == [op |-> op, name |-> name, obj |-> {}, error |-> error]

\* Manifest(instance_name, root_dir, etl_version): __new__ checks the name
\* and creates and registers an object for a new name; __init__ returns at
\* once on an initialised object, else validates the metadata (root_dir
\* must be a directory), empties records and hydrates from the file if one
\* exists
ManifestNew(name, rootIsDir, disk) ==
    /\ UNCHANGED <<clock, storeVars, pipeVars, probe, config, resolved>>
    /\ IF name \notin ETLProcess
       THEN /\ registry' = registry
            /\ call' = Failed("Manifest", name, "ValueError")
       ELSE LET fresh == name \notin DOMAIN registry.reg
                id == IF fresh THEN registry.made + 1 ELSE registry.reg[name]
                old == IF fresh THEN [initialized |-> FALSE, records |-> {}]
                       ELSE registry.objs[id]
                reg1 == [registry EXCEPT !.reg = (name :> id) @@ @,
                                         !.objs = (id :> old) @@ @,
                                         !.made = IF fresh THEN @ + 1 ELSE @]
            IN  IF old.initialized
                THEN /\ registry' = reg1
                     /\ call' = Returned("Manifest", name, id)
                ELSE IF ~rootIsDir
                THEN /\ registry' = reg1
                     /\ call' = Failed("Manifest", name, "ValidationError")
                ELSE IF disk = "corrupt"
                THEN /\ registry' = [reg1 EXCEPT !.objs[id].records = {}]
                     /\ call' = Failed("Manifest", name, "JSONDecodeError")
                ELSE /\ registry' = [reg1 EXCEPT !.objs[id] =
                                        [initialized |-> TRUE,
                                         records |-> IF disk = "valid" THEN {1} ELSE {}]]
                     /\ call' = Returned("Manifest", name, id)

\* Manifest.add_record: the record goes into self.records, then save()
\* raises NameError (UnboundLocalError from 3.12 on): "import json" inside
\* save makes json a local name that the comprehension above it reads
\* before it is bound
ManifestAddRecord(name, checksum) ==
    /\ name \in DOMAIN registry.reg
    /\ registry.objs[registry.reg[name]].initialized
    /\ registry' = [registry EXCEPT !.objs[registry.reg[name]].records = @ \cup {checksum}]
    /\ call' = Failed("add_record", name, "NameError")
    /\ UNCHANGED <<clock, storeVars, pipeVars, probe, config, resolved>>

\* ManifestManager(...).<name>: the module of the manager starts with
\* "from .model import Manifest", and the package has no module "model",
\* so the import raises before the class exists
ManagerGetattr(name) ==
    /\ registry' = registry
    /\ call' = Failed("ManifestManager.__getattr__", name, "ModuleNotFoundError")
    /\ UNCHANGED <<clock, storeVars, pipeVars, probe, config, resolved>>

InitRegistry ==
    /\ clock = 0
    /\ InitStore
    /\ InitPipe
    /\ probe = IdleProbe
    /\ call = NoCall
    /\ config = <<>>
    /\ resolved = <<>>
    /\ registry = [reg |-> <<>>, objs |-> <<>>, made |-> 0]

NextRegistry ==
    \/ \E name \in InstanceNames, rootIsDir \in BOOLEAN, disk \in ManifestOnDisk :
           ManifestNew(name, rootIsDir, disk)
    \/ \E name \in InstanceNames, checksum \in Checksums : ManifestAddRecord(name, checksum)
    \/ \E name \in InstanceNames : ManagerGetattr(name)

SpecRegistry == InitRegistry /\ [][NextRegistry]_vars

TypeOK ==
    /\ clock \in 0..MaxClock
    /\ runs \in 0..MaxRuns
    /\ \A p \in Procs : pc[p] \in {"idle", "open", "write", "replace", "crashed"}

\* ----------------------------------------------------------------- claims
Quiet == dl.pc # "streaming" /\ pc["p1"] = "idle"

\* the event of the last run is in the persisted manifest
LastRunCommitted ==
    \A e \in out.event : \E d \in Persisted.doc :
        /\ e.sha256 \in DOMAIN d.records
        /\ d.records[e.sha256] = DumpRecord(MkRecord(dl.source, e))

\* C1: when execute has returned a DownloadEvent, the event's sha256 is the
\* SHA-256 of the bytes stored in the file at event.file_path, whatever the
\* body was and however it was split into chunks.
C1_DigestMatchesFile ==
    dl.pc = "returned" =>
        \A e \in out.event :
            /\ e.file_path \in DOMAIN files
            /\ e.sha256 = CalculateLocalSha256(files[e.file_path])

C1_Witness ==
    /\ dl.pc = "returned"
    /\ out.status = "ok"
    /\ dl.chunks >= 2
    /\ Len(files[dl.dest]) >= 2

\* C2: between pipeline runs, every record of the persisted manifest points
\* to a file that exists, whose SHA-256 is the record's checksum and whose
\* size is the record's file_size.
C2_ManifestMatchesFilesystem ==
    (Quiet /\ dl.pc \in {"idle", "returned"}
           /\ (dl.pc = "returned" => LastRunCommitted)) =>
        \A d \in Persisted.doc : \A k \in DOMAIN d.records :
            /\ d.records[k].file_path \in DOMAIN files
            /\ CalculateLocalSha256(files[d.records[k].file_path]) = d.records[k].checksum
            /\ Len(files[d.records[k].file_path]) = d.records[k].file_size

\* C3: every (key, record) pair of the persisted manifest, and of every
\* manifest held in memory, has key = record.checksum.
C3_KeysMatchChecksums ==
    /\ \A d \in Persisted.doc : \A k \in DOMAIN d.records : k = d.records[k].checksum
    /\ \A p \in Procs : \A m \in mem[p] : ValidateRecordKeys(m)

C3_Witness ==
    /\ \E d \in Persisted.doc : Cardinality(DOMAIN d.records) = 2
    /\ res["p1"] = "loaded"

\* C4: after every add_record, in memory and in the persisted file,
\* metadata.total_records is the number of entries of records.
C4_TotalRecordsInSync ==
    /\ \A p \in Procs : \A m \in mem[p] :
           m.metadata.total_records = Cardinality(DOMAIN m.records)
    /\ \A d \in Persisted.doc :
           d.metadata.total_records = Cardinality(DOMAIN d.records)

C4_Witness ==
    /\ pc["p1"] = "idle" /\ res["p1"] = "ok" /\ job["p1"].op = "add_record"
    /\ job["p1"].replaced # {}
    /\ \E d \in Persisted.doc : d.metadata.total_records = 1

\* C5: when add_record has completed, the key of its event holds exactly the
\* record built from that call, in memory and on disk, also when the key was
\* already present (last write wins), and total_records counts the key once.
C5_LastWriteWins ==
    \A p \in Procs :
        (pc[p] = "idle" /\ res[p] = "ok" /\ job[p].op = "add_record") =>
            \A r \in job[p].record : \A m \in mem[p] : \A d \in Persisted.doc :
                /\ m.records[r.checksum] = r
                /\ d.records[r.checksum] = DumpRecord(r)
                /\ DOMAIN m.records = job[p].keysBefore \cup {r.checksum}
                /\ m.metadata.total_records =
                       Cardinality(job[p].keysBefore \cup {r.checksum})
                /\ d.metadata.total_records = m.metadata.total_records

C5_Witness ==
    /\ pc["p1"] = "idle" /\ res["p1"] = "ok" /\ job["p1"].op = "add_record"
    /\ job["p1"].replaced # {}
    /\ job["p1"].replaced # job["p1"].record
    /\ Persisted.state = "valid"

\* C6: while one process is inside save, or was killed inside it, the
\* manifest path holds the complete document it held before the save or the
\* complete new one; it is never partial and a file that existed is never
\* missing.
C6_SaveAtomicUnderCrash ==
    /\ Persisted.state # "corrupt"
    /\ \A p \in Procs :
           pc[p] \in {"open", "write", "replace", "crashed"} =>
               Persisted \in {job[p].before} \cup {ValidFile(d) : d \in job[p].data}
    /\ \A p \in Procs :
           (pc[p] = "idle" /\ res[p] = "ok") =>
               Persisted \in {ValidFile(d) : d \in job[p].data}

C6_Witness ==
    /\ pc["p1"] = "crashed"
    /\ job["p1"].before.state = "valid"
    /\ TmpPath(ManifestFile) \in DOMAIN names
    /\ Len(inodes[names[TmpPath(ManifestFile)]]) = 1
    /\ Persisted = job["p1"].before

\* C7: with two processes saving to the same path, a reader of the manifest
\* path always finds one writer's complete valid JSON.
C7_ReaderSeesCompleteJson == Persisted.state # "corrupt"

\* C8: nothing on disk is merged in by save: whenever the manifest path
\* comes to hold a new valid document, its records are exactly the records
\* one process held in memory when it called save, so a record another
\* process saved in between is lost.
C8_SaveNeverMerges ==
    [][(Persisted' # Persisted /\ Persisted'.state = "valid") =>
          \E p \in Procs : \E v \in job'[p].view : \A d \in Persisted'.doc :
              d.records = [k \in DOMAIN v |-> DumpRecord(v[k])]]_vars

C8_Witness ==
    /\ \A p \in Procs :
           /\ pc[p] = "idle" /\ res[p] = "ok" /\ job[p].op = "add_record"
           /\ job[p].keysBefore = {}
    /\ \E r1 \in job["p1"].record, r2 \in job["p2"].record, d \in Persisted.doc :
           /\ r1.checksum # r2.checksum
           /\ Cardinality(DOMAIN d.records) = 1
           /\ d.metadata.total_records = 1

\* C9: when the DownloadEvent cannot be constructed, execute raises, no
\* event exists that could be handed to add_record, and the step leaves the
\* manifest in memory and on disk as it was.
C9_FailedEventNeverCommitted ==
    /\ [](dl.pc = "raised" => out.event = {})
    /\ [][(dl.pc = "streaming" /\ dl'.pc # "streaming" /\ dl.remaining = <<>>
             /\ Len(files[dl.dest]) <= 0) =>
            (dl'.pc = "raised" /\ out'.status = "ValidationError"
               /\ UNCHANGED <<names, inodes, mem>>)]_vars

C9_Witness ==
    /\ dl.pc = "raised"
    /\ out.status = "ValidationError"
    /\ Persisted.state = "valid"

\* C10: when the transport fails on the first request of the probe, execute
\* returns a ProbeResult with status_code 0 and a non-empty probe_error and
\* does not raise.
C10_UnreachableHostReported ==
    (probe.server.head = NoResponse /\ probe.pc \in {"raised", "returned"}) =>
        /\ probe.pc = "returned"
        /\ probe.result.status_code = 0
        /\ probe.result.probe_error # {}

\* C11: a ProbeResult returned with probe_error set has mime_type "unknown"
\* or "error", and execute called with it raises at the strategy lookup: no
\* regime runs, no directory is made and no file is written.
C11_ProbeErrorNeverDispatched ==
    (probe.pc = "returned" /\ probe.result.probe_error # {}) =>
        /\ probe.result.mime_type \in {"unknown", "error"}
        /\ dl.pc \in {"idle", "raised"}
        /\ out.status \in {"none", "ValueError"}
        /\ dirs = {} /\ files = <<>>

C11_Witness ==
    /\ probe.pc = "returned"
    /\ probe.result.probe_error # {}
    /\ probe.server.content_type = GzipMime
    /\ dl.pc = "raised" /\ out.status = "ValueError"
    /\ runs = MaxRuns

\* C12: execute runs a regime exactly when the probed mime_type is a key of
\* the strategy map; for every other type it raises the no-strategy error
\* and leaves directories and files as they were (no default regime).
C12_UnmappedMimeIsHardError ==
    [][runs' # runs =>
         IF probe.result.mime_type = GzipMime
         THEN out'.status # "ValueError"
         ELSE /\ dl'.pc = "raised"
              /\ out'.status = "ValueError"
              /\ out'.event = {}
              /\ UNCHANGED <<dirs, files>>]_vars

C12_Witness ==
    /\ probe.pc = "returned"
    /\ probe.result.probe_error = {}
    /\ probe.result.mime_type = "application/json"
    /\ dl.pc = "raised" /\ out.status = "ValueError"

\* an operation ended by raising
Raised(status) ==
    status \in {"TypeError", "ValueError", "ValidationError", "FileNotFoundError",
                "KeyError", "JSONDecodeError", "AttributeError", "ModuleNotFoundError"}

KeyMismatch(doc) == \E k \in DOMAIN doc.records : doc.records[k].checksum # k

\* C13: when load has been called and no manifest file exists, it has
\* returned a Manifest with no records and total_records 0, and the manifest
\* directory holds no file.
C13_LoadMissingReturnsEmpty ==
    \A p \in Procs :
        (job[p].op = "load" /\ pc[p] = "idle" /\ Persisted.state = "absent") =>
            /\ ~Raised(res[p])
            /\ \E m \in mem[p] : m.records = <<>> /\ m.metadata.total_records = 0
            /\ DOMAIN names = {}

\* C14: loading a manifest file in which a record sits under a key that is
\* not its checksum raises, yields no manifest, and leaves the file as it is.
C14_KeyMismatchIsFatal ==
    /\ [](\A p \in Procs : \A d \in Persisted.doc :
             (job[p].op \in {"load", "read_pydantic_model"} /\ KeyMismatch(d)) =>
                 Raised(res[p]) /\ mem[p] = {})
    /\ [][(\E p \in Procs : job'[p] # job[p] \/ res'[p] # res[p]) =>
             UNCHANGED <<names, inodes>>]_vars

C14_Witness ==
    /\ \E d \in Persisted.doc : KeyMismatch(d) /\ Cardinality(DOMAIN d.records) = 2
    /\ job["p1"].op = "read_pydantic_model" /\ res["p1"] = "ValueError"
    /\ job["p2"].op = "load" /\ res["p2"] = "TypeError"

\* C15: every add_record and every save leaves metadata.ts_updated at the
\* time of the call, which is not earlier than the value it had; when the
\* digest added is already the only key, total_records stays 1.
C15_TouchOnEveryMutation ==
    [][\A p \in Procs :
          (pc[p] = "idle" /\ pc'[p] = "open") =>
              \A m \in mem[p] : \A n \in mem'[p] :
                  /\ n.metadata.ts_updated >= m.metadata.ts_updated
                  /\ n.metadata.ts_updated = clock'
                  /\ (job'[p].replaced # {} /\ m.metadata.total_records = 1) =>
                         n.metadata.total_records = 1]_vars

C15_Witness ==
    /\ pc["p1"] = "idle" /\ res["p1"] = "ok" /\ job["p1"].op = "add_record"
    /\ \E old \in job["p1"].replaced : old.ts_downloaded = 0
    /\ \E r \in job["p1"].record : r.ts_downloaded = 1
    /\ \E m \in mem["p1"] :
           /\ m.metadata.ts_created = 0
           /\ m.metadata.ts_updated = 1
           /\ m.metadata.total_records = 1
    /\ \E d \in Persisted.doc :
           d.metadata.ts_updated = IsoFormat(1) /\ d.metadata.total_records = 1

Resolvers ==
    {"get_root_dir", "get_downloads_dir", "get_manifests_dir", "get_raw_dir",
     "generate_download_path", "generate_manifest_path"}

\* C17: a resolver call of PathManager leaves every file and directory as
\* it was; the set of directories changes only in a create_directory call.
C17_ResolversDoNotTouchDisk ==
    /\ [][(call' # call /\ call'.op \in Resolvers) =>
             UNCHANGED <<dirs, files, names, inodes>>]_vars
    /\ [][dirs' # dirs => call'.op = "create_directory"]_vars

C17_Witness ==
    /\ call.op = "generate_download_path"
    /\ Parent(call.result) \notin dirs
    /\ GetRawDir \in dirs

\* C18: the same (process, version) pair always resolves to the same
\* manifest path, and two different pairs never resolve to the same path.
C18_ManifestPathOneToOne ==
    /\ [](\A a \in DOMAIN resolved : \A b \in DOMAIN resolved :
             a # b => resolved[a] # resolved[b])
    /\ [][\A a \in (DOMAIN resolved) \cap (DOMAIN resolved') :
             resolved'[a] = resolved[a]]_vars

\* C19: at most one Config instance is ever created, and every Config()
\* call that does not raise returns that instance after it was loaded from
\* the configuration file and passed validate().
C19_ConfigValidatedSingleton ==
    /\ config.created <= 1
    /\ (call.op = "Config" /\ ~Raised(call.result)) =>
           \A i \in config.instance : i.loaded /\ i.validated

\* C20: one Manifest instance per process name: every construction of
\* Manifest and every read of ManifestManager.<process> for a valid name
\* returns the registered instance, whose records are what they were, and a
\* name outside ETLProcess is rejected and adds nothing to the registry.
C20_OneManifestPerProcess ==
    /\ [](/\ registry.made = Cardinality(DOMAIN registry.reg)
          /\ DOMAIN registry.reg \subseteq ETLProcess
          /\ (call.op = "ManifestManager.__getattr__" /\ call.name \in ETLProcess) =>
                 /\ call.name \in DOMAIN registry.reg
                 /\ \A id \in call.obj : id = registry.reg[call.name]
                 /\ call.obj # {}
          /\ (call.op \in {"Manifest", "ManifestManager.__getattr__"}
                 /\ call.name \notin ETLProcess) => call.obj = {})
    /\ [][\A name \in DOMAIN registry.reg :
             (call'.op \in {"Manifest", "ManifestManager.__getattr__"}
                /\ call'.name = name /\ registry.objs[registry.reg[name]].initialized) =>
                 /\ registry'.reg[name] = registry.reg[name]
                 /\ registry'.objs[registry.reg[name]] = registry.objs[registry.reg[name]]]_vars

\* the HEAD was answered with a status that is not an error
HeadSucceeded == probe.server.head # NoResponse /\ probe.server.head < 400

\* C21: when the HEAD response has an error status, execute has returned a
\* ProbeResult that carries a probe_error and the status code of the HEAD,
\* and the HEAD is the only request made: no sample GET is issued.
C21_FailedHeadFailsFast ==
    (probe.pc # "start" /\ probe.server.head >= 400) =>
        /\ probe.pc = "returned"
        /\ probe.result.probe_error # {}
        /\ probe.result.status_code = probe.server.head
        /\ probe.requests = 1

C21_Witness ==
    /\ probe.pc = "returned"
    /\ probe.server.head = 404
    /\ probe.server.get = 200
    /\ probe.requests = 1
    /\ probe.result.probe_error # {}

\* C22: when the sample GET raises after a successful HEAD, execute does not
\* raise: it returns a ProbeResult with status_code 0, mime_type "error" and
\* a non-empty probe_error.
C22_SampleExceptionIsReported ==
    (HeadSucceeded /\ probe.server.get = NoResponse
        /\ probe.pc \notin {"start", "sample"}) =>
        /\ probe.pc = "returned"
        /\ probe.result.status_code = 0
        /\ probe.result.mime_type = "error"
        /\ probe.result.probe_error # {}

C22_Witness ==
    /\ probe.pc = "returned"
    /\ probe.server.head = 200
    /\ probe.server.get = NoResponse
    /\ probe.requests = 2
    /\ probe.result.mime_type = "error"

\* the SHA-256 accumulator after it was fed the bytes b and nothing else
DigestOf(b) == Sha256Update(Sha256New, b)

\* C23 as stated: at every point of the chunk loop the accumulator has been
\* fed exactly the bytes already written to the destination; the digest
\* never covers a byte that is not in the file.
C23_DigestNeverAhead ==
    dl.pc = "streaming" => dl.sha = DigestOf(files[dl.dest])

\* C23 amended: at every boundary of the chunk loop the accumulator has been
\* fed exactly the bytes written to the destination, and inside an iteration
\* it has been fed those bytes plus the one chunk in hand, which is hashed
\* before it is written.
C23_DigestAheadByChunkInHand ==
    dl.pc = "streaming" =>
        /\ dl.sha = DigestOf(files[dl.dest] \o dl.pending)
        /\ Len(dl.pending) <= ChunkSize
        /\ dl.pending = <<>> => dl.sha = DigestOf(files[dl.dest])

C23_Witness ==
    /\ dl.pc = "streaming"
    /\ dl.pending # <<>>
    /\ files[dl.dest] # <<>>
    /\ dl.sha # DigestOf(files[dl.dest])

\* C24: a download never truncates or overwrites a file that already exists
\* at its destination: the step that opens the destination leaves the
\* content of an existing file as it was.
C24_ExistingDestinationKept ==
    [][(runs' = runs + 1 /\ dl'.pc = "streaming" /\ dl'.dest \in DOMAIN files) =>
           files'[dl'.dest] = files[dl'.dest]]_vars

\* C25: when the stream fails with a transport error after chunks were
\* written, execute has raised without a DownloadEvent and the partially
\* written file is still on disk, holding the chunks written so far.
C25_TransportErrorKeepsPartialFile ==
    (dl.pc = "raised" /\ out.status = "TransportError" /\ dl.chunks >= 1) =>
        /\ out.event = {}
        /\ dl.dest \in DOMAIN files
        /\ Len(files[dl.dest]) = dl.chunks * ChunkSize
        /\ dl.remaining # <<>>

C25_Witness ==
    /\ dl.pc = "raised"
    /\ out.status = "TransportError"
    /\ dl.chunks = 1
    /\ dl.dest \in DOMAIN files
    /\ Len(files[dl.dest]) = 1
    /\ out.event = {}

\* C26: while streaming, the download holds at most one chunk of the body
\* in memory, whatever the size of the body.
C26_OneChunkInMemory ==
    dl.pc = "streaming" => Len(dl.pending) <= ChunkSize

C26_Witness ==
    /\ dl.pc = "streaming"
    /\ dl.pending # <<>>
    /\ dl.chunks >= 2
    /\ Len(files[dl.dest]) + Len(dl.pending) > ChunkSize

\* a server whose HEAD is no error and whose sample GET delivers the sample
ProbeSucceeds(server) ==
    /\ server.head # NoResponse
    /\ server.head < 400
    /\ server.get \in {200, 206}

\* C27: the mime_type of a successful probe depends on the sample bytes
\* only: a probe of any other server that delivers the same sample returns
\* the same mime_type, whatever the Content-Type header of either server.
C27_MimeDependsOnSampleOnly ==
    (probe.pc = "returned" /\ ProbeSucceeds(probe.server)) =>
        \A other \in Servers :
            (ProbeSucceeds(other) /\ other.sample = probe.server.sample) =>
                SampleResult(other).mime_type = probe.result.mime_type

C27_Witness ==
    /\ probe.pc = "returned"
    /\ ProbeSucceeds(probe.server)
    /\ probe.server.sample = "gzip"
    /\ probe.server.content_type = "text/html"
    /\ probe.result.mime_type = GzipMime

\* C28: when the HEAD succeeds and the sample GET returns a status other
\* than 200 or 206, execute returns a ProbeResult without probe_error, with
\* mime_type "unknown" and with the status code of the HEAD.
C28_RefusedSampleIsNotAnError ==
    (probe.pc = "returned" /\ HeadSucceeded
        /\ probe.server.get \notin {NoResponse, 200, 206}) =>
        /\ probe.result.probe_error = {}
        /\ probe.result.mime_type = "unknown"
        /\ probe.result.status_code = probe.server.head

C28_Witness ==
    /\ probe.pc = "returned"
    /\ probe.server.head = 200
    /\ probe.server.get = 416
    /\ probe.server.sample = "gzip"
    /\ probe.requests = 2
    /\ probe.result.mime_type = "unknown"

\* C29: when load is called for the process and version of a manifest that
\* save has written, it returns a manifest with the same records, process,
\* version, total_records and ts_created as the one saved.
C29_SaveLoadRoundTrip ==
    \A p \in Procs :
        (job[p].op = "load" /\ pc[p] = "idle" /\ Persisted.state = "valid"
            /\ \E m \in mem[p] : ModelDump(m) \in Persisted.doc) =>
            /\ ~Raised(res[p])
            /\ \A m \in mem[p], d \in Persisted.doc :
                   /\ ParseManifest(d).records = m.records
                   /\ ParseManifest(d).process = m.process
                   /\ ParseManifest(d).metadata.version = m.metadata.version
                   /\ ParseManifest(d).metadata.total_records = m.metadata.total_records
                   /\ ParseManifest(d).metadata.ts_created = m.metadata.ts_created

\* C30: when the download GET is answered with an HTTP error status, the
\* download raises before it opens the destination: the step creates no
\* file and changes no file.
C30_HttpErrorTouchesNoFile ==
    [][(runs' = runs + 1 /\ dl'.pc = "raised" /\ out'.status = "HTTPStatusError") =>
           files' = files]_vars

C30_Witness ==
    /\ dl.pc = "raised"
    /\ out.status = "HTTPStatusError"
    /\ dl.dest \in DOMAIN files
    /\ files[dl.dest] # <<>>
====
